---- MODULE Spec2Model ----
(***************************************************************************)
(* Model of longrunning.py: the three runnable snippets that stream the    *)
(* output of external commands into Streamlit status panes.                *)
(*   example1  (lines 125-150)  synchronous launchandview, Joe / Averell   *)
(*   queue     (lines 183-206)  multiprocessing workers + queue + 'EOQ'    *)
(*   example2  (lines 229-265)  asyncio launchandview, four commands       *)
(* The child processes (/tmp/extprg.py, lines 52-62) are modelled as       *)
(* independent processes that run concurrently with the script.            *)
(***************************************************************************)
EXTENDS Integers, Sequences, FiniteSets, TLC

\* Number of iterations of the child's loop (the '10' of the command lines).
LoopN == 2
\* Largest number of checkboxes ticked in the example2 form.
MaxSelected == 2

\* The checkboxes of the two forms, in the order the code tests them.
Form1 == <<"Joe", "Averell">>
Form2 == <<"Joe", "Jack", "William", "Averell">>
Commands == {"Joe", "Jack", "William", "Averell"}
Workers == {"Joe", "Averell"}
Procs == {"parent"} \cup Workers

Range(s) == {s[k] : k \in 1..Len(s)}

VARIABLES
    mainpc,     \* position of the script run
    snippet,    \* which snippet's button was pressed: none, example1, queue, example2
    tasks,      \* the commands whose box is ticked, in the order of the code
    ready,      \* example2: the event loop's ready queue; example1: calls still to make
    running,    \* the launchandview call currently executing (holding the thread)
    loopstate,  \* event loop: none, open, closed
    pc,         \* position of each launchandview call
    child,      \* the spawned process of each command
    rd,         \* number of lines the line iterator has yielded
    content,    \* the local 'content' string, as a sequence of lines
    container,  \* the elements of the st.container of each pane
    x,          \* index in container of the element the local 'x' refers to
    pane,       \* the st.status of each command
    exitstatus, \* child.exitstatus after child.close()
    quiet,      \* history: siblings waiting on a silent child when the child ended
    wpc,        \* queue snippet: position of each worker process
    buf,        \* queue snippet: per-process buffer of the queue's feeder thread
    pipe,       \* queue snippet: the queue's pipe
    display,    \* queue snippet: what st.write has shown, with the writer
    printed     \* queue snippet: what print has written

taskvars == <<tasks, ready, running, loopstate, pc, rd, content, container, x,
              pane, exitstatus>>
childvars == <<child, quiet>>
queuevars == <<wpc, buf, pipe, display, printed>>
vars == <<mainpc, snippet, taskvars, childvars, queuevars>>

----------------------------------------------------------------------------
\* The external program /tmp/extprg.py

\* The text printed by iteration i of command id on the given stream.
Line(id, i, to) == <<id, i, to>>

\* A status that may be absent (Python's None) is a set of at most one number.
None == {}
Some(n) == {n}

NoChild == [st |-> "none", i |-> 0, out |-> <<>>, code |-> None]

\* exit(random.randint(0,1))
ExitCodes == {0, 1}

\* The child has closed its output: the line iterator sees EOF after the
\* buffered lines.
Ended(t) == child[t].st = "exited"

\* Siblings whose task is waiting in the line iterator for a child that has
\* neither printed nor ended.
Silent(t) ==
    {u \in Range(tasks) \ {t} :
        /\ running = u
        /\ pc[u] = "readline"
        /\ child[u].st = "alive"
        /\ child[u].out = <<>>}

\* One iteration of f: out = random.randint(0,2); 0 prints to stdout, 1 to
\* stderr (both arrive on the pty), 2 prints nothing.
ChildStep(t) ==
    /\ child[t].st = "alive"
    /\ child[t].i < LoopN
    /\ \E o \in 0..2 :
         child' = [child EXCEPT ![t] =
            [@ EXCEPT !.i = @ + 1,
                      !.out = IF o = 0 THEN Append(@, Line(t, child[t].i, "stdout"))
                              ELSE IF o = 1 THEN Append(@, Line(t, child[t].i, "stderr"))
                              ELSE @]]
    /\ UNCHANGED <<mainpc, snippet, taskvars, quiet, queuevars>>

\* The loop is over: exit(random.randint(0,1)).
ChildExit(t) ==
    /\ child[t].st = "alive"
    /\ child[t].i = LoopN
    /\ \E c \in ExitCodes :
         child' = [child EXCEPT ![t] = [@ EXCEPT !.st = "exited", !.code = Some(c)]]
    /\ quiet' = [quiet EXCEPT ![t] = Silent(t)]
    /\ UNCHANGED <<mainpc, snippet, taskvars, queuevars>>

\* The child is killed by a signal before it exits: it has no exit code.
ChildKilled(t) ==
    /\ child[t].st = "alive"
    /\ child' = [child EXCEPT ![t] = [@ EXCEPT !.st = "exited", !.code = None]]
    /\ quiet' = [quiet EXCEPT ![t] = Silent(t)]
    /\ UNCHANGED <<mainpc, snippet, taskvars, queuevars>>

----------------------------------------------------------------------------
\* The display: st.status, st.container, st.code

NoPane == [state |-> "none", label |-> <<>>, expanded |-> FALSE]

\* st.status(cmd, expanded=True)
NewPane(t) == [state |-> "running", label |-> <<"cmd", t>>, expanded |-> TRUE]

CodeElt(text) == [kind |-> "code", text |-> text]
EmptyElt == [kind |-> "empty", text |-> <<>>]

\* Variant: the previous element is not emptied before the new one is added.
RedisplayNoEmpty(c, ix, newcontent) ==
    Append(c, CodeElt(newcontent))

\* x.empty(); content += line; x = st.code(content), inside 'with c'.
Redisplay(c, ix, newcontent) ==
    Append([c EXCEPT ![ix] = EmptyElt], CodeElt(newcontent))

\* What the container shows: the text of its code elements, top to bottom.
RECURSIVE Shown(_)
Shown(c) ==
    IF c = <<>> THEN <<>>
    ELSE (IF Head(c).kind = "code" THEN Head(c).text ELSE <<>>) \o Shown(Tail(c))

\* Variant: 'if not child.exitstatus', which takes a missing status for success.
StatusTruthy(t, es) ==
    IF es \in {None, Some(0)}
    THEN [state |-> "complete", label |-> <<"Complete", t>>, expanded |-> FALSE]
    ELSE [state |-> "error", label |-> <<"Ended with errors", t>>, expanded |-> FALSE]

\* if child.exitstatus == 0: stx.update(state="complete") else state="error"
StatusAsync(t, es) ==
    IF es = Some(0)
    THEN [state |-> "complete", label |-> <<"Complete", t>>, expanded |-> FALSE]
    ELSE [state |-> "error", label |-> <<"Ended with errors", t>>, expanded |-> FALSE]

StatusSync(t, es) ==
    IF es = Some(0)
    THEN [state |-> "complete", label |-> <<"Complete", t>>, expanded |-> FALSE]
    ELSE [state |-> "error", label |-> <<"Ended with errors", t>>, expanded |-> FALSE]

Terminal == {"complete", "error"}

----------------------------------------------------------------------------
Init ==
    /\ mainpc = "idle"
    /\ snippet = "none"
    /\ tasks = <<>>
    /\ ready = <<>>
    /\ running = "none"
    /\ loopstate = "none"
    /\ pc = [t \in Commands |-> "new"]
    /\ child = [t \in Commands |-> NoChild]
    /\ rd = [t \in Commands |-> 0]
    /\ content = [t \in Commands |-> <<>>]
    /\ container = [t \in Commands |-> <<>>]
    /\ x = [t \in Commands |-> 0]
    /\ pane = [t \in Commands |-> NoPane]
    /\ exitstatus = [t \in Commands |-> None]
    /\ quiet = [t \in Commands |-> {}]
    /\ wpc = [w \in Workers |-> "new"]
    /\ buf = [p \in Procs |-> <<>>]
    /\ pipe = <<>>
    /\ display = <<>>
    /\ printed = <<>>

----------------------------------------------------------------------------
\* pexpect

\* pexpect.spawn either starts the process or raises (command not found,
\* no pty left); the caller's input is which of the two happens.
SpawnOutcomes == {"ok", "raise"}

Spawned == [st |-> "alive", i |-> 0, out |-> <<>>, code |-> None]

\* The line iterator has a line to yield without waiting.
LineReady(t) == rd[t] < Len(child[t].out)

\* Variant: the iterator stops as soon as the child has ended, whatever is
\* still buffered.
AtEOFEarly(t) == Ended(t)

\* The line iterator stops: every line was yielded and the output is closed.
AtEOF(t) == rd[t] = Len(child[t].out) /\ Ended(t)

\* child.close(): the pty is closed and the exit status collected.
Closed(c) == [c EXCEPT !.st = "closed"]

----------------------------------------------------------------------------
\* example1: the synchronous launchandview

Selected(form, sel) == SelectSeq(form, LAMBDA c : c \in sel)

\* The form is submitted with the given boxes ticked.
Submit1(sel) ==
    /\ mainpc = "idle"
    /\ mainpc' = "example1"
    /\ snippet' = "example1"
    /\ tasks' = Selected(Form1, sel)
    /\ ready' = Selected(Form1, sel)
    /\ UNCHANGED <<running, loopstate, pc, rd, content, container, x, pane,
                   exitstatus, childvars, queuevars>>

\* Variant: the next call does not wait for the previous one to return.
SyncCanLaunchEarly(t) ==
    /\ mainpc = "example1"
    /\ ready # <<>>
    /\ t = Head(ready)

\* The next 'if <box>: launchandview(...)' may be reached.
SyncCanLaunch(t) ==
    /\ mainpc = "example1"
    /\ running = "none"
    /\ ready # <<>>
    /\ t = Head(ready)

\* launchandview up to the first wait for a line (lines 128-135).
SyncLaunch(t) ==
    /\ SyncCanLaunch(t)
    /\ ready' = Tail(ready)
    /\ \E o \in SpawnOutcomes :
         IF o = "raise"
         THEN /\ mainpc' = "raised"
              /\ pc' = [pc EXCEPT ![t] = "raised"]
              /\ UNCHANGED <<running, child, pane, content, container, x>>
         ELSE /\ child' = [child EXCEPT ![t] = Spawned]
              /\ pane' = [pane EXCEPT ![t] = NewPane(t)]
              /\ content' = [content EXCEPT ![t] = <<>>]
              /\ container' = [container EXCEPT ![t] = <<CodeElt(<<>>)>>]
              /\ x' = [x EXCEPT ![t] = 1]
              /\ pc' = [pc EXCEPT ![t] = "readline"]
              /\ running' = t
              /\ UNCHANGED mainpc
    /\ UNCHANGED <<snippet, tasks, loopstate, rd, exitstatus, quiet, queuevars>>

\* One turn of 'for line in child' (lines 135-138).
SyncReadLine(t) ==
    /\ snippet = "example1"
    /\ running = t
    /\ pc[t] = "readline"
    /\ LineReady(t)
    /\ LET line == child[t].out[rd[t] + 1]
           new == Append(content[t], line)
       IN /\ content' = [content EXCEPT ![t] = new]
          /\ container' = [container EXCEPT ![t] = Redisplay(@, x[t], new)]
          /\ x' = [x EXCEPT ![t] = Len(container[t]) + 1]
    /\ rd' = [rd EXCEPT ![t] = @ + 1]
    /\ UNCHANGED <<mainpc, snippet, tasks, ready, running, loopstate, pc, pane,
                   exitstatus, childvars, queuevars>>

\* The iterator is exhausted: child.close() and the status update
\* (lines 139-141); launchandview returns.
SyncEOF(t) ==
    /\ snippet = "example1"
    /\ running = t
    /\ pc[t] = "readline"
    /\ AtEOF(t)
    /\ child' = [child EXCEPT ![t] = Closed(@)]
    /\ exitstatus' = [exitstatus EXCEPT ![t] = child[t].code]
    /\ pane' = [pane EXCEPT ![t] = StatusSync(t, child[t].code)]
    /\ pc' = [pc EXCEPT ![t] = "done"]
    /\ running' = "none"
    /\ UNCHANGED <<mainpc, snippet, tasks, ready, loopstate, rd, content,
                   container, x, quiet, queuevars>>

\* Both 'if' statements are behind: the script run ends.
Script1End ==
    /\ mainpc = "example1"
    /\ running = "none"
    /\ ready = <<>>
    /\ mainpc' = "finished"
    /\ UNCHANGED <<snippet, taskvars, childvars, queuevars>>

----------------------------------------------------------------------------
\* example2: the asyncio launchandview

\* The orders in which asyncio.wait, which makes a set of the coroutines,
\* may schedule them.
Orders(s) == {o \in [1..Len(s) -> Range(s)] : Range(o) = Range(s)}

\* asyncio.wait raises ValueError on an empty list.
WaitRaises(ts) == ts = <<>>

\* The form is submitted: new_event_loop, the task list, and the call of
\* run_until_complete(asyncio.wait(tasks)) (lines 256-263).
Submit2(sel) ==
    /\ mainpc = "idle"
    /\ Cardinality(sel) <= MaxSelected
    /\ snippet' = "example2"
    /\ loopstate' = "open"
    /\ tasks' = Selected(Form2, sel)
    /\ IF WaitRaises(Selected(Form2, sel))
       THEN /\ mainpc' = "raised"
            /\ ready' = <<>>
       ELSE /\ mainpc' = "run_until_complete"
            /\ ready' \in Orders(Selected(Form2, sel))
    /\ UNCHANGED <<running, pc, rd, content, container, x, pane, exitstatus,
                   childvars, queuevars>>

\* The event loop runs the callback at the head of its ready queue, and only
\* when no callback is executing.
Scheduled(t) ==
    /\ snippet = "example2"
    /\ mainpc = "run_until_complete"
    /\ running = "none"
    /\ ready # <<>>
    /\ t = Head(ready)

\* await asyncio.sleep(0): the task goes to the back of the ready queue.
Yield(q, t) == Append(q, t)

\* First step of the coroutine: spawn, st.status, st.container, up to the
\* await of line 236.  A spawn that raises ends the task with the exception.
TaskStart(t) ==
    /\ Scheduled(t)
    /\ pc[t] = "new"
    /\ \E o \in SpawnOutcomes :
         IF o = "raise"
         THEN /\ pc' = [pc EXCEPT ![t] = "raised"]
              /\ ready' = Tail(ready)
              /\ UNCHANGED <<child, pane>>
         ELSE /\ child' = [child EXCEPT ![t] = Spawned]
              /\ pane' = [pane EXCEPT ![t] = NewPane(t)]
              /\ pc' = [pc EXCEPT ![t] = "await236"]
              /\ ready' = Yield(Tail(ready), t)
    /\ UNCHANGED <<mainpc, snippet, tasks, running, loopstate, rd, content,
                   container, x, exitstatus, quiet, queuevars>>

\* Resumed from line 236: content = '', x = st.code(''), and the first
\* call of the line iterator, which does not return to the event loop.
TaskEnterLoop(t) ==
    /\ Scheduled(t)
    /\ pc[t] = "await236"
    /\ ready' = Tail(ready)
    /\ running' = t
    /\ content' = [content EXCEPT ![t] = <<>>]
    /\ container' = [container EXCEPT ![t] = <<CodeElt(<<>>)>>]
    /\ x' = [x EXCEPT ![t] = 1]
    /\ pc' = [pc EXCEPT ![t] = "readline"]
    /\ UNCHANGED <<mainpc, snippet, tasks, loopstate, rd, pane, exitstatus,
                   childvars, queuevars>>

\* Resumed from line 244: the next call of the line iterator.
TaskNextLine(t) ==
    /\ Scheduled(t)
    /\ pc[t] = "await244"
    /\ ready' = Tail(ready)
    /\ running' = t
    /\ pc' = [pc EXCEPT ![t] = "readline"]
    /\ UNCHANGED <<mainpc, snippet, tasks, loopstate, rd, content, container, x,
                   pane, exitstatus, childvars, queuevars>>

\* The iterator yields a line: lines 241-244.
TaskReadLine(t) ==
    /\ snippet = "example2"
    /\ running = t
    /\ pc[t] = "readline"
    /\ LineReady(t)
    /\ LET line == child[t].out[rd[t] + 1]
           new == Append(content[t], line)
       IN /\ content' = [content EXCEPT ![t] = new]
          /\ container' = [container EXCEPT ![t] = Redisplay(@, x[t], new)]
          /\ x' = [x EXCEPT ![t] = Len(container[t]) + 1]
    /\ rd' = [rd EXCEPT ![t] = @ + 1]
    /\ pc' = [pc EXCEPT ![t] = "await244"]
    /\ running' = "none"
    /\ ready' = Yield(ready, t)
    /\ UNCHANGED <<mainpc, snippet, tasks, loopstate, pane, exitstatus,
                   childvars, queuevars>>

\* The iterator is exhausted: lines 245-248.
TaskEOF(t) ==
    /\ snippet = "example2"
    /\ running = t
    /\ pc[t] = "readline"
    /\ AtEOF(t)
    /\ child' = [child EXCEPT ![t] = Closed(@)]
    /\ exitstatus' = [exitstatus EXCEPT ![t] = child[t].code]
    /\ pane' = [pane EXCEPT ![t] = StatusAsync(t, child[t].code)]
    /\ pc' = [pc EXCEPT ![t] = "await248"]
    /\ running' = "none"
    /\ ready' = Yield(ready, t)
    /\ UNCHANGED <<mainpc, snippet, tasks, loopstate, rd, content, container, x,
                   quiet, queuevars>>

\* Resumed from line 248: the coroutine returns.
TaskFinish(t) ==
    /\ Scheduled(t)
    /\ pc[t] = "await248"
    /\ ready' = Tail(ready)
    /\ pc' = [pc EXCEPT ![t] = "done"]
    /\ UNCHANGED <<mainpc, snippet, tasks, running, loopstate, rd, content,
                   container, x, pane, exitstatus, childvars, queuevars>>

\* asyncio.wait is over when every task is done, with a result or an
\* exception.
AllDone == \A t \in Range(tasks) : pc[t] \in {"done", "raised"}

\* run_until_complete returns.
RunReturn ==
    /\ mainpc = "run_until_complete"
    /\ AllDone
    /\ mainpc' = "returned"
    /\ UNCHANGED <<snippet, taskvars, childvars, queuevars>>

\* loop.close() (line 264); the script run ends.
LoopClose ==
    /\ mainpc = "returned"
    /\ mainpc' = "finished"
    /\ loopstate' = "closed"
    /\ UNCHANGED <<snippet, tasks, ready, running, pc, rd, content, container,
                   x, pane, exitstatus, childvars, queuevars>>

----------------------------------------------------------------------------
\* The multiprocessing snippet: two workers, a queue, the 'EOQ' marker

Hello(name) == <<"Hello", name>>
EOQ == <<"EOQ">>

\* queue.put: the object goes to the calling process's feeder buffer.
Put(b, p, m) == [b EXCEPT ![p] = Append(@, m)]

\* Button pressed: the queue is made and the parent calls f(queue, 'Ma Dalton').
QStart ==
    /\ mainpc = "idle"
    /\ snippet' = "queue"
    /\ buf' = Put(buf, "parent", Hello("Ma Dalton"))
    /\ mainpc' = "q_start_p1"
    /\ UNCHANGED <<taskvars, childvars, wpc, pipe, display, printed>>

\* p1.start()
QStartP1 ==
    /\ mainpc = "q_start_p1"
    /\ wpc' = [wpc EXCEPT !["Joe"] = "started"]
    /\ mainpc' = "q_start_p2"
    /\ UNCHANGED <<snippet, taskvars, childvars, buf, pipe, display, printed>>

\* p2.start()
QStartP2 ==
    /\ mainpc = "q_start_p2"
    /\ wpc' = [wpc EXCEPT !["Averell"] = "started"]
    /\ mainpc' = "q_sleep"
    /\ UNCHANGED <<snippet, taskvars, childvars, buf, pipe, display, printed>>

\* time.sleep(1) is over: queue.put('EOQ')
QPutEOQ ==
    /\ mainpc = "q_sleep"
    /\ buf' = Put(buf, "parent", EOQ)
    /\ mainpc' = "q_get"
    /\ UNCHANGED <<snippet, taskvars, childvars, wpc, pipe, display, printed>>

\* One turn of the read loop: x = queue.get(); break on 'EOQ', else
\* st.write(x) and print(x).
QGet ==
    /\ mainpc = "q_get"
    /\ pipe # <<>>
    /\ pipe' = Tail(pipe)
    /\ IF Head(pipe) = EOQ
       THEN /\ mainpc' = "q_close"
            /\ UNCHANGED <<display, printed>>
       ELSE /\ display' = Append(display, [by |-> "parent", text |-> Head(pipe)])
            /\ printed' = Append(printed, Head(pipe))
            /\ UNCHANGED mainpc
    /\ UNCHANGED <<snippet, taskvars, childvars, wpc, buf>>

\* queue.close()
QClose ==
    /\ mainpc = "q_close"
    /\ mainpc' = "q_join1"
    /\ UNCHANGED <<snippet, taskvars, childvars, queuevars>>

\* p1.join()
QJoin1 ==
    /\ mainpc = "q_join1"
    /\ wpc["Joe"] = "exited"
    /\ mainpc' = "q_join2"
    /\ UNCHANGED <<snippet, taskvars, childvars, queuevars>>

\* p2.join(); the script run ends.
QJoin2 ==
    /\ mainpc = "q_join2"
    /\ wpc["Averell"] = "exited"
    /\ mainpc' = "finished"
    /\ UNCHANGED <<snippet, taskvars, childvars, queuevars>>

\* The worker runs f(queue, name): queue.put, and nothing on the display.
WorkerPut(w) ==
    /\ wpc[w] = "started"
    /\ buf' = Put(buf, w, Hello(w))
    /\ wpc' = [wpc EXCEPT ![w] = "put"]
    /\ UNCHANGED <<mainpc, snippet, taskvars, childvars, pipe, display, printed>>

\* The worker process exits once its feeder thread has flushed the buffer.
WorkerExit(w) ==
    /\ wpc[w] = "put"
    /\ buf[w] = <<>>
    /\ wpc' = [wpc EXCEPT ![w] = "exited"]
    /\ UNCHANGED <<mainpc, snippet, taskvars, childvars, buf, pipe, display, printed>>

\* The feeder thread of process p writes its oldest buffered object to the pipe.
Feeder(p) ==
    /\ buf[p] # <<>>
    /\ pipe' = Append(pipe, Head(buf[p]))
    /\ buf' = [buf EXCEPT ![p] = Tail(@)]
    /\ UNCHANGED <<mainpc, snippet, taskvars, childvars, wpc, display, printed>>

----------------------------------------------------------------------------
\* The external programs run on their own.
ChildNext ==
    \/ \E t \in Commands : ChildStep(t)
    \/ \E t \in Commands : ChildExit(t)
    \/ \E t \in Commands : ChildKilled(t)

\* A run of the page in which only the example1 form is used.
NextExample1 ==
    \/ \E sel \in SUBSET Range(Form1) : Submit1(sel)
    \/ \E t \in Commands : SyncLaunch(t)
    \/ \E t \in Commands : SyncReadLine(t)
    \/ \E t \in Commands : SyncEOF(t)
    \/ Script1End
    \/ ChildNext

SpecExample1 == Init /\ [][NextExample1]_vars

Next ==
    \/ \E sel \in SUBSET Range(Form1) : Submit1(sel)
    \/ \E t \in Commands : SyncLaunch(t)
    \/ \E t \in Commands : SyncReadLine(t)
    \/ \E t \in Commands : SyncEOF(t)
    \/ Script1End
    \/ \E sel \in SUBSET Range(Form2) : Submit2(sel)
    \/ \E t \in Commands : TaskStart(t)
    \/ \E t \in Commands : TaskEnterLoop(t)
    \/ \E t \in Commands : TaskNextLine(t)
    \/ \E t \in Commands : TaskReadLine(t)
    \/ \E t \in Commands : TaskEOF(t)
    \/ \E t \in Commands : TaskFinish(t)
    \/ RunReturn
    \/ LoopClose
    \/ \E t \in Commands : ChildStep(t)
    \/ \E t \in Commands : ChildExit(t)
    \/ \E t \in Commands : ChildKilled(t)
    \/ QStart
    \/ QStartP1
    \/ QStartP2
    \/ QPutEOQ
    \/ QGet
    \/ QClose
    \/ QJoin1
    \/ QJoin2
    \/ \E w \in Workers : WorkerPut(w)
    \/ \E w \in Workers : WorkerExit(w)
    \/ \E p \in Procs : Feeder(p)

Spec == Init /\ [][Next]_vars

----------------------------------------------------------------------------
\* Properties

Returned == snippet = "example2" /\ mainpc \in {"returned", "finished"}

\* C1: in example2, run_until_complete has returned only when every selected
\* command's task has closed its child and set its pane to complete or error.
C1_RunReturnsAfterAllTerminal ==
    Returned =>
        \A t \in Range(tasks) :
            child[t].st = "closed" /\ pane[t].state \in Terminal

\* C2: with two commands in example2, if the first child exits 0 while the
\* second task is waiting for the first line of its child, which later exits 1,
\* the first pane is complete before the second pane is terminal.
C2_FastPaneCompletesFirst ==
    \A a, b \in Range(tasks) :
        ( /\ snippet = "example2"
          /\ Len(tasks) = Cardinality({a, b})
          /\ b \in quiet[a]
          /\ child[a].code = Some(0)
          /\ child[b].code = Some(1)
          /\ pane[b].state \in Terminal )
        => pane[a].state = "complete"

\* C3: in example2, when the run has returned, a command whose spawn raised
\* has a pane in the error state and every other selected command has a
\* terminal pane.
C3_SpawnFailureShownOnPane ==
    Returned =>
        \A t \in Range(tasks) :
            IF pc[t] = "raised"
            THEN pane[t].state = "error"
            ELSE pane[t].state \in Terminal

\* C4: a pane's terminal status is complete exactly when the exit status that
\* child.close() collected is 0; any other code, or none, gives error.
C4_CompleteIffExitZero ==
    \A t \in Commands :
        pane[t].state \in Terminal =>
            /\ child[t].st = "closed"
            /\ exitstatus[t] = child[t].code
            /\ pane[t].state = "complete" <=> exitstatus[t] = Some(0)
            /\ pane[t].state = "error" <=> exitstatus[t] # Some(0)

\* A pane in the error state for a child that was killed by a signal.
C4_Witness ==
    \E t \in Commands :
        /\ pane[t].state = "error"
        /\ child[t].st = "closed"
        /\ exitstatus[t] = None

\* C5: what a command's pane shows is exactly the lines its iterator has
\* yielded so far, in order, and all of them are that command's lines.
C5_PaneShowsLinesRead ==
    \A t \in Commands :
        /\ Shown(container[t]) = SubSeq(child[t].out, 1, rd[t])
        /\ \A k \in 1..Len(Shown(container[t])) : Shown(container[t])[k][1] = t

\* Two panes of example2 are being filled at the same time, one of them with
\* more than one line.
C5_Witness ==
    /\ snippet = "example2"
    /\ \E t, u \in Commands :
        /\ t # u
        /\ pane[t].state = "running" /\ rd[t] > 1
        /\ pane[u].state = "running" /\ rd[u] > 0

\* A retention limit smaller than the number of lines a command can print.
RetentionK == LoopN - 1

\* C6: a pane never holds more than K lines, and after more than K appends it
\* holds exactly the last K lines read.
C6_RetentionBound ==
    \A t \in Commands :
        /\ Len(Shown(container[t])) <= RetentionK
        /\ rd[t] > RetentionK =>
              Shown(container[t]) = SubSeq(child[t].out, rd[t] - RetentionK + 1, rd[t])

\* The number of times message m was written to the display.
Count(s, m) == Cardinality({k \in 1..Len(s) : s[k].text = m})

\* C7: in the queue snippet only the parent writes to the display, and when
\* the run is over every worker's message has been written exactly once.
C7_WorkerMessagesAllDisplayed ==
    /\ \A k \in 1..Len(display) : display[k].by = "parent"
    /\ (snippet = "queue" /\ mainpc = "finished") =>
           \A w \in Workers : Count(display, Hello(w)) = 1

\* C8: in example1 with both boxes ticked, Averell's process and pane do not
\* exist before Joe's pane is terminal.
C8_SequentialLaunch ==
    (snippet = "example1" /\ Range(tasks) = {"Joe", "Averell"}) =>
        ((child["Averell"].st # "none" \/ pane["Averell"].state # "none")
            => pane["Joe"].state \in Terminal)

\* Averell is running after Joe, who printed something, has ended.
C8_Witness ==
    /\ snippet = "example1"
    /\ pane["Joe"].state \in Terminal
    /\ rd["Joe"] > 0
    /\ pane["Averell"].state = "running"
    /\ child["Averell"].st = "alive"

\* One step seen from the pane of t: a terminal pane and its content do not
\* change, and a pane becomes terminal only from running, with the child
\* closed and every line read.
C9Step(t) ==
    /\ pane[t].state \in Terminal =>
          /\ pane'[t] = pane[t]
          /\ container'[t] = container[t]
          /\ content'[t] = content[t]
          /\ rd'[t] = rd[t]
    /\ (pane[t].state \notin Terminal /\ pane'[t].state \in Terminal) =>
          /\ pane[t].state = "running"
          /\ child'[t].st = "closed"
          /\ rd'[t] = Len(child'[t].out)

\* C9: each pane goes from running to complete or error once and for all,
\* only after the lines are exhausted and the child closed, and no line is
\* added afterwards.
C9_TerminalOnceAfterClose == [][\A t \in Commands : C9Step(t)]_vars

\* In example2 a pane that showed lines is terminal while a sibling is still
\* running.
C9_Witness ==
    /\ snippet = "example2"
    /\ \E t, u \in Commands :
        /\ pane[t].state \in Terminal /\ rd[t] > 0
        /\ pane[u].state = "running"

\* C10: example2 submitted with no box ticked ends without an error and
\* without a pane.
C10_EmptySelectionRunsNormally ==
    (snippet = "example2" /\ tasks = <<>>) =>
        /\ mainpc # "raised"
        /\ \A t \in Commands : pane[t].state = "none"

====
